---- MODULE Spec2Model ----
(***************************************************************************)
(* Model of FaceGuidanceMQTTApp (src/face_guidance_mqtt.py): the control   *)
(* loop run(), the two classification methods, the automated dispatch      *)
(* send_mqtt_command and the manual dispatch handle_manual_control.        *)
(*                                                                         *)
(* Time is counted in quarters of a second, so COMMAND_RATE_LIMIT = 0.5 s  *)
(* is 2 units.  time.time() is the variable now, advanced by Tick.         *)
(***************************************************************************)
EXTENDS Integers, Sequences, FiniteSets, TLC

VARIABLES
    now,                \* the wall clock read by time.time()
    last_command,       \* self.last_command ("None" models Python's None)
    last_command_time,  \* self.last_command_time
    pc,                 \* position of run() in its loop
    frame_width,        \* frame.shape[1]
    faces,              \* the boxes returned by detect_faces for this frame
    idx,                \* index of the face the for loop of draw_guidance is at
    distance_status,    \* local distance_status of draw_guidance
    position_status,    \* local position_status of draw_guidance
    key,                \* local key of run()
    pub,                \* the message handed to mqtt_client.publish by the last step
    call,               \* record of the last step's dispatch call, with the state it found
    last_pub,           \* history: the latest message accepted by the channel
    suppressed,         \* history: the command last rejected as a duplicate
    failed_cmd,         \* history: the command whose publish failed last, nothing sent since
    tick_sent,          \* history: an automated command was published in this frame tick
    held                \* history: the classified state that already got its dispatch

vars == <<now, last_command, last_command_time, pc, frame_width, faces, idx,
          distance_status, position_status, key, pub, call, last_pub,
          suppressed, failed_cmd, tick_sent, held>>

DispatchState == <<last_command, last_command_time>>

(***************************************************************************)
(* Program constants                                                       *)
(***************************************************************************)
TOO_CLOSE_THRESHOLD == 200
TOO_FAR_THRESHOLD == 100
FRAME_CENTER_THRESHOLD == 50
COMMAND_RATE_LIMIT == 2

ord_w == 119
ord_s == 115
ord_a == 97
ord_d == 100
ord_q == 113
ord_e == 101
ord_space == 32
ESC == 27
NoKey == 255
ord_x == 120

None == "None"
Commands == {"Forward", "Backward", "Left", "Right", "Stop", "RotateLeft", "RotateRight"}

(***************************************************************************)
(* Bounds of the model                                                     *)
(***************************************************************************)
StartTime == 3
Horizon == 4
MaxFaces == 1
MinWidth == 95
MaxWidth == 205
MinX == 165
MaxX == 330

MaxTime == StartTime + Horizon

Keys == {ord_w, ord_s, ord_a, ord_d, ord_q, ord_e, ord_space, ESC, NoKey, ord_x}

Box(x, w) == [x |-> x, w |-> w]

\* The boxes the detector returns in the control loop: one per pair of classes
\* that matters, among them Scenario 1 and Scenario 2 of the specification.
FaceBoxes == {Box(60, 80), Box(195, 250), Box(245, 150), Box(280, 80), Box(400, 150)}

FrameWidths == {640}
ClassifyWidths == {639, 640, 642}

RECURSIVE SeqsUpTo(_, _)
SeqsUpTo(S, n) ==
    IF n = 0 THEN {<<>>}
    ELSE LET shorter == SeqsUpTo(S, n - 1)
         IN shorter \cup {Append(s, e) : s \in {t \in shorter : Len(t) = n - 1}, e \in S}

(***************************************************************************)
(* Classification                                                          *)
(***************************************************************************)
\* Mutant: a face at the optimal distance makes the robot stop.
analyze_face_distance_stop(face_width) ==
    IF face_width > TOO_CLOSE_THRESHOLD
    THEN [command |-> "Backward", status |-> "TOO_CLOSE"]
    ELSE IF face_width < TOO_FAR_THRESHOLD
    THEN [command |-> "Forward", status |-> "TOO_FAR"]
    ELSE [command |-> "Stop", status |-> "OPTIMAL"]

\* analyze_face_distance: the command it passes to send_mqtt_command and the
\* status it returns.
analyze_face_distance(face_width) ==
    IF face_width > TOO_CLOSE_THRESHOLD
    THEN [command |-> "Backward", status |-> "TOO_CLOSE"]
    ELSE IF face_width < TOO_FAR_THRESHOLD
    THEN [command |-> "Forward", status |-> "TOO_FAR"]
    ELSE [command |-> None, status |-> "OPTIMAL"]

\* Mutant: the comparisons with the centre band are not strict.
analyze_face_position_inclusive(face_center_x, width) ==
    LET frame_center_x == width \div 2 IN
    IF face_center_x <= frame_center_x - FRAME_CENTER_THRESHOLD
    THEN [command |-> "Right", status |-> "TOO_LEFT"]
    ELSE IF face_center_x >= frame_center_x + FRAME_CENTER_THRESHOLD
    THEN [command |-> "Left", status |-> "TOO_RIGHT"]
    ELSE [command |-> None, status |-> "CENTERED"]

\* analyze_face_position
analyze_face_position(face_center_x, width) ==
    LET frame_center_x == width \div 2 IN
    IF face_center_x < frame_center_x - FRAME_CENTER_THRESHOLD
    THEN [command |-> "Right", status |-> "TOO_LEFT"]
    ELSE IF face_center_x > frame_center_x + FRAME_CENTER_THRESHOLD
    THEN [command |-> "Left", status |-> "TOO_RIGHT"]
    ELSE [command |-> None, status |-> "CENTERED"]

\* face_center_x of draw_guidance
FaceCenterX(f) == f.x + f.w \div 2

\* The classified state of a frame: the two statuses of each face.
ClassOf(fs, width) ==
    [i \in 1..Len(fs) |->
        <<analyze_face_distance(fs[i].w).status,
          analyze_face_position(FaceCenterX(fs[i]), width).status>>]

\* The commands draw_guidance attempts for a frame.
CommandsOf(fs, width) ==
    ({analyze_face_distance(fs[i].w).command : i \in 1..Len(fs)}
       \cup {analyze_face_position(FaceCenterX(fs[i]), width).command : i \in 1..Len(fs)})
    \ {None}

(***************************************************************************)
(* Dispatch                                                                *)
(***************************************************************************)
Result(ret, published, lc, lct, outcome) ==
    [ret |-> ret, published |-> published, last_command |-> lc,
     last_command_time |-> lct, outcome |-> outcome]

\* Mutant: the identical-command test is dropped.
send_mqtt_command_no_dedup(command, current_time, lc, lct, ok) ==
    IF current_time - lct < COMMAND_RATE_LIMIT
    THEN Result(FALSE, FALSE, lc, lct, "rate_limited")
    ELSE IF ok
    THEN Result(TRUE, TRUE, command, current_time, "sent")
    ELSE Result(FALSE, FALSE, lc, lct, "failed")

\* Mutant: the identical-command test lapses once two rate-limit windows have passed.
send_mqtt_command_dedup_expires(command, current_time, lc, lct, ok) ==
    IF current_time - lct < COMMAND_RATE_LIMIT
    THEN Result(FALSE, FALSE, lc, lct, "rate_limited")
    ELSE IF command = lc /\ current_time - lct < 2 * COMMAND_RATE_LIMIT
    THEN Result(FALSE, FALSE, lc, lct, "duplicate")
    ELSE IF ok
    THEN Result(TRUE, TRUE, command, current_time, "sent")
    ELSE Result(FALSE, FALSE, lc, lct, "failed")

\* Mutant: last_command is assigned before the publish, outside the try.
send_mqtt_command_early_write(command, current_time, lc, lct, ok) ==
    IF current_time - lct < COMMAND_RATE_LIMIT
    THEN Result(FALSE, FALSE, lc, lct, "rate_limited")
    ELSE IF command = lc
    THEN Result(FALSE, FALSE, lc, lct, "duplicate")
    ELSE IF ok
    THEN Result(TRUE, TRUE, command, current_time, "sent")
    ELSE Result(FALSE, FALSE, command, lct, "failed")

\* Mutant: a rejected duplicate restarts the rate-limit window.
send_mqtt_command_duplicate_restarts(command, current_time, lc, lct, ok) ==
    IF current_time - lct < COMMAND_RATE_LIMIT
    THEN Result(FALSE, FALSE, lc, lct, "rate_limited")
    ELSE IF command = lc
    THEN Result(FALSE, FALSE, lc, current_time, "duplicate")
    ELSE IF ok
    THEN Result(TRUE, TRUE, command, current_time, "sent")
    ELSE Result(FALSE, FALSE, lc, lct, "failed")

\* send_mqtt_command(command) called at current_time with DispatchState
\* (lc, lct); ok is whether mqtt_client.publish returns without raising.
send_mqtt_command(command, current_time, lc, lct, ok) ==
    IF current_time - lct < COMMAND_RATE_LIMIT
    THEN Result(FALSE, FALSE, lc, lct, "rate_limited")
    ELSE IF command = lc
    THEN Result(FALSE, FALSE, lc, lct, "duplicate")
    ELSE IF ok
    THEN Result(TRUE, TRUE, command, current_time, "sent")
    ELSE Result(FALSE, FALSE, lc, lct, "failed")

\* The key table of handle_manual_control
KeyCommand(k) ==
    IF k = ord_w THEN "Forward"
    ELSE IF k = ord_s THEN "Backward"
    ELSE IF k = ord_a THEN "Left"
    ELSE IF k = ord_d THEN "Right"
    ELSE IF k = ord_q THEN "RotateLeft"
    ELSE IF k = ord_e THEN "RotateRight"
    ELSE IF k = ord_space THEN "Stop"
    ELSE None

\* Mutant: the manual path publishes without the interval test, as its comment says.
manual_dispatch_bypass(cmd, current_time, lc, lct, ok) ==
    IF cmd = None
    THEN Result(FALSE, FALSE, lc, lct, "none")
    ELSE IF ok
    THEN Result(FALSE, TRUE, cmd, current_time, "sent")
    ELSE Result(FALSE, FALSE, lc, lct, "failed")

\* Mutant: the manual path goes through the identical-command test too.
manual_dispatch_dedup(cmd, current_time, lc, lct, ok) ==
    IF cmd = None
    THEN Result(FALSE, FALSE, lc, lct, "none")
    ELSE IF current_time - lct >= COMMAND_RATE_LIMIT
    THEN IF cmd = lc
         THEN Result(FALSE, FALSE, lc, lct, "duplicate")
         ELSE IF ok
         THEN Result(FALSE, TRUE, cmd, current_time, "sent")
         ELSE Result(FALSE, FALSE, lc, lct, "failed")
    ELSE Result(FALSE, FALSE, lc, lct, "rate_limited")

\* Mutant: the manual path stamps the time but does not record its command.
manual_dispatch_no_record(cmd, current_time, lc, lct, ok) ==
    IF cmd = None
    THEN Result(FALSE, FALSE, lc, lct, "none")
    ELSE IF current_time - lct >= COMMAND_RATE_LIMIT
    THEN IF ok
         THEN Result(FALSE, TRUE, lc, current_time, "sent")
         ELSE Result(FALSE, FALSE, lc, lct, "failed")
    ELSE Result(FALSE, FALSE, lc, lct, "rate_limited")

\* handle_manual_control(key), from "if cmd:" on
manual_dispatch(cmd, current_time, lc, lct, ok) ==
    IF cmd = None
    THEN Result(FALSE, FALSE, lc, lct, "none")
    ELSE IF current_time - lct >= COMMAND_RATE_LIMIT
    THEN IF ok
         THEN Result(FALSE, TRUE, cmd, current_time, "sent")
         ELSE Result(FALSE, FALSE, lc, lct, "failed")
    ELSE Result(FALSE, FALSE, lc, lct, "rate_limited")

\* The quit test of run()
IsQuit(k) == k = ord_q \/ k = ESC

(***************************************************************************)
(* History records                                                         *)
(***************************************************************************)
NoPub == [cmd |-> None, by |-> "none", at |-> 0]
NoClass == [on |-> FALSE, class |-> <<>>]

\* What a step called, what came of it and the state it found.
Call(op, command, r) ==
    [op |-> op, command |-> command, outcome |-> r.outcome, ret |-> r.ret,
     at |-> IF command = None THEN 0 ELSE now,
     was |-> last_command, since |-> last_command_time,
     before |-> last_pub, supp |-> suppressed, failed |-> failed_cmd]

NoResult == Result(FALSE, FALSE, last_command, last_command_time, "none")

\* The effect of a step that makes at most one dispatch call with result r.
Effect(op, by, command, r) ==
    /\ last_command' = r.last_command
    /\ last_command_time' = r.last_command_time
    /\ pub' = IF r.published THEN [cmd |-> command, by |-> by] ELSE [cmd |-> None, by |-> "none"]
    /\ call' = Call(op, command, r)
    /\ last_pub' = IF r.published THEN [cmd |-> command, by |-> by, at |-> now] ELSE last_pub
    /\ suppressed' = IF r.outcome = "duplicate" THEN command
                     ELSE IF r.published /\ by = "auto" THEN None
                     ELSE suppressed
    /\ failed_cmd' = IF r.outcome = "failed" /\ by = "auto" THEN command
                     ELSE IF r.published THEN None
                     ELSE failed_cmd

NoEffect(op) == Effect(op, "none", None, NoResult)

(***************************************************************************)
(* The control loop                                                        *)
(***************************************************************************)
Init ==
    /\ now = StartTime
    /\ last_command = None
    /\ last_command_time = 0
    /\ pc = "read"
    /\ frame_width \in FrameWidths
    /\ faces = <<>>
    /\ idx = 0
    /\ distance_status = None
    /\ position_status = None
    /\ key = NoKey
    /\ pub = [cmd |-> None, by |-> "none"]
    /\ call = [op |-> "none", command |-> None, outcome |-> "none", ret |-> FALSE,
               at |-> 0, was |-> None, since |-> 0, before |-> NoPub,
               supp |-> None, failed |-> None]
    /\ last_pub = NoPub
    /\ suppressed = None
    /\ failed_cmd = None
    /\ tick_sent = FALSE
    /\ held = NoClass

\* The clock advances between any two steps of the loop.
Tick ==
    /\ now < MaxTime
    /\ pc # "done"
    /\ now' = now + 1
    /\ NoEffect("none")
    /\ UNCHANGED <<pc, frame_width, faces, idx, distance_status, position_status,
                   key, tick_sent, held>>

\* ret, frame = self.cap.read() with ret true.  The locals of the previous
\* iteration are dead here (each is assigned before it is read again), so the
\* new iteration starts with them cleared.
ReadFrame ==
    /\ pc = "read"
    /\ pc' = "detect"
    /\ faces' = <<>>
    /\ idx' = 0
    /\ distance_status' = None
    /\ position_status' = None
    /\ key' = NoKey
    /\ tick_sent' = FALSE
    /\ NoEffect("read")
    /\ UNCHANGED <<now, frame_width, held>>

\* ret false: "Failed to grab frame", break, cleanup
ReadFails ==
    /\ pc = "read"
    /\ pc' = "done"
    /\ NoEffect("read")
    /\ UNCHANGED <<now, frame_width, faces, idx, distance_status, position_status,
                   key, tick_sent, held>>

\* The branch of run() on len(faces)
RunBranch(fs) == IF Len(fs) > 0 THEN "distance" ELSE "noface"

\* faces = self.detect_faces(frame) returning fs
DetectFaces ==
    /\ pc = "detect"
    /\ \E fs \in SeqsUpTo(FaceBoxes, MaxFaces) :
        /\ faces' = fs
        /\ pc' = RunBranch(fs)
        /\ idx' = 1
        /\ held' = IF held.on /\ held.class = ClassOf(fs, frame_width) THEN held ELSE NoClass
    /\ NoEffect("detect")
    /\ UNCHANGED <<now, frame_width, distance_status, position_status, key, tick_sent>>

\* detectMultiScale raises: detect_faces has no handler and run() catches
\* only KeyboardInterrupt, so the exception leaves the loop through cleanup.
DetectRaises ==
    /\ pc = "detect"
    /\ pc' = "done"
    /\ NoEffect("detect")
    /\ UNCHANGED <<now, frame_width, faces, idx, distance_status, position_status,
                   key, tick_sent, held>>

\* distance_status = self.analyze_face_distance(w) for the face at idx
AnalyzeDistance ==
    /\ pc = "distance"
    /\ idx <= Len(faces)
    /\ LET a == analyze_face_distance(faces[idx].w) IN
       /\ distance_status' = a.status
       /\ \E ok \in BOOLEAN :
            LET r == IF a.command = None THEN NoResult
                     ELSE send_mqtt_command(a.command, now, last_command,
                                            last_command_time, ok)
            IN /\ Effect("analyze_face_distance", "auto", a.command, r)
               /\ tick_sent' = (tick_sent \/ r.published)
    /\ pc' = "position"
    /\ UNCHANGED <<now, frame_width, faces, idx, position_status, key, held>>

\* position_status = self.analyze_face_position(face_center_x, width), then
\* the for loop moves to the next face or draw_guidance returns
AnalyzePosition ==
    /\ pc = "position"
    /\ LET a == analyze_face_position(FaceCenterX(faces[idx]), frame_width) IN
       /\ position_status' = a.status
       /\ \E ok \in BOOLEAN :
            LET r == IF a.command = None THEN NoResult
                     ELSE send_mqtt_command(a.command, now, last_command,
                                            last_command_time, ok)
            IN /\ Effect("analyze_face_position", "auto", a.command, r)
               /\ tick_sent' = (tick_sent \/ r.published)
    /\ idx' = idx + 1
    /\ pc' = IF idx + 1 <= Len(faces) THEN "distance" ELSE "key"
    /\ UNCHANGED <<now, frame_width, faces, distance_status, key, held>>

\* Mutant: the else branch tells the robot to stop when no face is seen.
ShowNoFace_stop ==
    /\ pc = "noface"
    /\ pc' = "key"
    /\ \E ok \in BOOLEAN :
        Effect("noface", "auto", "Stop",
               send_mqtt_command("Stop", now, last_command, last_command_time, ok))
    /\ UNCHANGED <<now, frame_width, faces, idx, distance_status, position_status,
                   key, tick_sent, held>>

\* The else branch of run(): "No face detected" and the instructions drawn
ShowNoFace ==
    /\ pc = "noface"
    /\ pc' = "key"
    /\ NoEffect("noface")
    /\ UNCHANGED <<now, frame_width, faces, idx, distance_status, position_status,
                   key, tick_sent, held>>

\* key = cv2.waitKey(1) & 0xFF; self.handle_manual_control(key); the quit test
KeyStep ==
    /\ pc = "key"
    /\ \E k \in Keys, ok \in BOOLEAN :
        LET cmd == KeyCommand(k)
            r == manual_dispatch(cmd, now, last_command, last_command_time, ok)
        IN /\ key' = k
           /\ Effect("handle_manual_control", "manual", cmd, r)
           /\ pc' = IF IsQuit(k) THEN "done" ELSE "read"
           /\ held' = IF r.published THEN NoClass
                      ELSE IF tick_sent \/ held.on
                      THEN [on |-> TRUE, class |-> ClassOf(faces, frame_width)]
                      ELSE NoClass
    /\ UNCHANGED <<now, frame_width, faces, idx, distance_status, position_status,
                   tick_sent>>

Next ==
    \/ Tick
    \/ ReadFrame
    \/ ReadFails
    \/ DetectFaces
    \/ DetectRaises
    \/ AnalyzeDistance
    \/ AnalyzePosition
    \/ ShowNoFace
    \/ KeyStep

Spec == Init /\ [][Next]_vars

TypeOK ==
    /\ now \in StartTime..MaxTime
    /\ last_command \in Commands \cup {None}
    /\ last_command_time \in 0..MaxTime
    /\ pc \in {"read", "detect", "distance", "position", "noface", "key", "done"}

(***************************************************************************)
(* Classification applied to one bounding box drawn from a range of        *)
(* widths, positions and frame widths around the thresholds.               *)
(***************************************************************************)
ClassifyInit ==
    /\ now = StartTime
    /\ last_command = None
    /\ last_command_time = 0
    /\ pc = "distance"
    /\ frame_width \in ClassifyWidths
    /\ \E x \in MinX..MaxX, w \in MinWidth..MaxWidth : faces = <<Box(x, w)>>
    /\ idx = 1
    /\ distance_status = None
    /\ position_status = None
    /\ key = NoKey
    /\ pub = [cmd |-> None, by |-> "none"]
    /\ call = [op |-> "none", command |-> None, outcome |-> "none", ret |-> FALSE,
               at |-> 0, was |-> None, since |-> 0, before |-> NoPub,
               supp |-> None, failed |-> None]
    /\ last_pub = NoPub
    /\ suppressed = None
    /\ failed_cmd = None
    /\ tick_sent = FALSE
    /\ held = NoClass

ClassifyNext ==
    \/ AnalyzeDistance
    \/ AnalyzePosition

SpecClassify == ClassifyInit /\ [][ClassifyNext]_vars

(***************************************************************************)
(* Properties                                                              *)
(***************************************************************************)
AnalyzeOps == {"analyze_face_distance", "analyze_face_position"}

\* The step just taken called send_mqtt_command.
AutoCall == call.op \in AnalyzeOps /\ call.command # None

\* The step just taken called handle_manual_control with a mapped key.
ManualCall == call.op = "handle_manual_control" /\ call.command # None

\* The step just taken left DispatchState as it found it.
StateKept == last_command = call.was /\ last_command_time = call.since

\* The step just taken published nothing.
Silent == pub.cmd = None

\* The step just taken published its command and recorded it with the time read.
Dispatched(by) ==
    /\ pub = [cmd |-> call.command, by |-> by]
    /\ last_command = call.command
    /\ last_command_time = call.at

C2_Original ==
    pub.by = "auto" => ~held.on

\* C2 amended: the same, for a classified state that maps to one command only
\* (no face both off-distance and off-centre, all faces asking the same command).
C2_StableSingleCommand ==
    (pub.by = "auto" /\ Cardinality(CommandsOf(faces, frame_width)) <= 1) => ~held.on

\* C2 witness: in an unchanged state that maps to one command, the command is
\* attempted again after the rate-limit window and rejected as a duplicate.
C2_Witness ==
    /\ held.on
    /\ Cardinality(CommandsOf(faces, frame_width)) = 1
    /\ AutoCall
    /\ call.outcome = "duplicate"
    /\ call.at - call.since >= COMMAND_RATE_LIMIT

\* C3: a send_mqtt_command whose publish fails returns False, publishes
\* nothing and keeps DispatchState; the next attempt of that command that
\* passes the rate-limit test (nothing published in between) reaches publish,
\* and only its success records the command and the time.
C3_FailedPublish ==
    /\ (AutoCall /\ call.outcome = "failed")
          => (~call.ret /\ Silent /\ StateKept)
    /\ (AutoCall /\ call.command = call.failed
            /\ call.at - call.since >= COMMAND_RATE_LIMIT)
          => /\ call.outcome \in {"sent", "failed"}
             /\ call.outcome = "sent" => (call.ret /\ Dispatched("auto"))
             /\ call.was # call.command

\* C3 witness: the retry of a command whose publish had failed is published.
C3_Witness ==
    /\ AutoCall
    /\ call.command = call.failed
    /\ call.outcome = "sent"
    /\ failed_cmd = None

\* C4: send_mqtt_command of the command equal to last_command returns False,
\* publishes nothing and keeps DispatchState, whatever the clock reads.
C4_DuplicateSuppressed ==
    (AutoCall /\ call.command = call.was)
        => (~call.ret /\ Silent /\ StateKept)

\* C4 witness: the duplicate is rejected although more than COMMAND_RATE_LIMIT
\* has passed since last_command_time.
C4_Witness ==
    /\ AutoCall
    /\ call.command = call.was
    /\ call.outcome = "duplicate"
    /\ call.at - call.since > COMMAND_RATE_LIMIT

C6_Original ==
    (pub.by = "manual" /\ call.supp # None) => call.supp # last_command

\* C6 amended: a published manual command is the remembered command of the
\* shared DispatchState; and when the latest published command is a manual one
\* that differs from the automated command rejected as a duplicate before it,
\* an automated attempt of that command at least COMMAND_RATE_LIMIT later is
\* not rejected: it reaches publish and, on success, is recorded.
C6_ManualRearms ==
    /\ pub.by = "manual" => (last_command = pub.cmd /\ last_command_time = call.at)
    /\ (AutoCall /\ call.before.by = "manual" /\ call.command = call.supp
            /\ call.command # call.before.cmd
            /\ call.at - call.before.at >= COMMAND_RATE_LIMIT)
          => /\ call.outcome \in {"sent", "failed"}
             /\ call.outcome = "sent" => Dispatched("auto")

\* C6 witness: the automated command rejected as a duplicate is published
\* again after a different manual command.
C6_Witness ==
    /\ AutoCall
    /\ call.before.by = "manual"
    /\ call.command = call.supp
    /\ call.command # call.before.cmd
    /\ call.outcome = "sent"

\* C7 as stated: the classification methods publish nothing and keep
\* DispatchState.
C7_Original ==
    call.op \in AnalyzeOps => (Silent /\ StateKept)

\* C7 amended: a classification that returns OPTIMAL or CENTERED calls
\* nothing, publishes nothing and keeps DispatchState; one that returns another
\* status makes a single send_mqtt_command call, whose only effects are to
\* publish that call's command and record it with the time read.
C7_ClassificationEffect ==
    /\ (call.op = "analyze_face_distance" /\ distance_status = "OPTIMAL")
          => (call.command = None /\ Silent /\ StateKept)
    /\ (call.op = "analyze_face_position" /\ position_status = "CENTERED")
          => (call.command = None /\ Silent /\ StateKept)
    /\ call.op \in AnalyzeOps
          => IF call.outcome = "sent" THEN Dispatched("auto") ELSE Silent /\ StateKept

\* C7 witness: a face classified OPTIMAL and CENTERED while a command is
\* remembered.
C7_Witness ==
    /\ call.op = "analyze_face_position"
    /\ position_status = "CENTERED"
    /\ distance_status = "OPTIMAL"
    /\ last_command # None

\* C8: in a frame tick with zero faces the guidance path makes no dispatch
\* call, publishes nothing and keeps DispatchState, and the face analysis is
\* never entered.
C8_NoFaces ==
    /\ (faces = <<>> /\ pc \in {"noface", "key"})
          => (call.command = None /\ Silent /\ StateKept /\ ~tick_sent)
    /\ pc \in {"distance", "position"} => faces # <<>>

\* C8 witness: the no-face branch has run while a command is remembered.
C8_Witness ==
    /\ faces = <<>>
    /\ pc = "key"
    /\ call.op = "noface"
    /\ last_command # None

\* The command the specification's tables give for a status.
CommandFor(status) ==
    CASE status = "TOO_CLOSE" -> "Backward"
      [] status = "TOO_FAR" -> "Forward"
      [] status = "TOO_LEFT" -> "Right"
      [] status = "TOO_RIGHT" -> "Left"
      [] OTHER -> None

\* C9: for the box (x, w) and the frame width, the distance status is
\* TOO_CLOSE iff w > 200, TOO_FAR iff w < 100, OPTIMAL iff 100 <= w <= 200;
\* with face_center_x = x + w // 2 and frame_center_x = frame_width // 2 the
\* position status is TOO_LEFT iff face_center_x < frame_center_x - 50,
\* TOO_RIGHT iff face_center_x > frame_center_x + 50, CENTERED otherwise; and
\* the command each analysis attempts is the one the tables give
\* (Backward, Forward, Right, Left, none).
C9_Classification ==
    Len(faces) = 1 =>
        LET w == faces[1].w
            face_center_x == faces[1].x + (faces[1].w \div 2)
            frame_center_x == frame_width \div 2
        IN /\ pc \in {"position", "key"} =>
                /\ distance_status \in {"TOO_CLOSE", "TOO_FAR", "OPTIMAL"}
                /\ distance_status = "TOO_CLOSE" <=> w > 200
                /\ distance_status = "TOO_FAR" <=> w < 100
                /\ distance_status = "OPTIMAL" <=> (100 <= w /\ w <= 200)
           /\ call.op = "analyze_face_distance" =>
                call.command = CommandFor(distance_status)
           /\ call.op = "analyze_face_position" =>
                /\ position_status \in {"TOO_LEFT", "TOO_RIGHT", "CENTERED"}
                /\ position_status = "TOO_LEFT" <=> face_center_x < frame_center_x - 50
                /\ position_status = "TOO_RIGHT" <=> face_center_x > frame_center_x + 50
                /\ position_status = "CENTERED" <=>
                      (frame_center_x - 50 <= face_center_x
                         /\ face_center_x <= frame_center_x + 50)
                /\ call.command = CommandFor(position_status)

\* C9 witness: a box of width 200 whose centre is exactly 50 right of the
\* centre of an odd-width frame is classified OPTIMAL and CENTERED.
C9_Witness ==
    /\ Len(faces) = 1
    /\ call.op = "analyze_face_position"
    /\ faces[1].w = 200
    /\ frame_width = 639
    /\ faces[1].x + 100 = 319 + 50
    /\ distance_status = "OPTIMAL"
    /\ position_status = "CENTERED"

\* C10: no key press both publishes the command it maps to and ends the
\* loop, and a key outside the table w/s/a/d/q/e/space publishes nothing.
C10_QuitKeyDistinct ==
    call.op = "handle_manual_control" =>
        /\ ~(KeyCommand(key) # None /\ pub.cmd = KeyCommand(key) /\ pc = "done")
        /\ key \notin {ord_w, ord_s, ord_a, ord_d, ord_q, ord_e, ord_space} => Silent

\* C11: a detector exception is treated as zero faces for that tick: the
\* detection step makes no dispatch call, publishes nothing, keeps
\* DispatchState, and the loop goes on instead of terminating.
C11_DetectorFailure ==
    call.op = "detect" =>
        (call.command = None /\ Silent /\ StateKept /\ pc # "done")

(***************************************************************************)
(* The control loop in front of one face that stays TOO_FAR and TOO_LEFT:  *)
(* every read succeeds, the detector returns the same box, every publish   *)
(* succeeds and no key is pressed.  The loop is one thread that keeps      *)
(* running and the clock keeps advancing (up to MaxTime), hence the weak   *)
(* fairness of each step.                                                  *)
(***************************************************************************)
SteadyBox == Box(60, 80)

SteadyTick == Tick

SteadyRead == ReadFrame

SteadyDetect == DetectFaces /\ faces' = <<SteadyBox>>

SteadyDistance == AnalyzeDistance /\ call'.outcome # "failed"

SteadyPosition == AnalyzePosition /\ call'.outcome # "failed"

SteadyKey == KeyStep /\ key' = NoKey

SteadyNext ==
    \/ SteadyTick
    \/ SteadyRead
    \/ SteadyDetect
    \/ SteadyDistance
    \/ SteadyPosition
    \/ SteadyKey

SpecSteady ==
    /\ Init
    /\ [][SteadyNext]_vars
    /\ WF_vars(SteadyTick)
    /\ WF_vars(SteadyRead)
    /\ WF_vars(SteadyDetect)
    /\ WF_vars(SteadyDistance)
    /\ WF_vars(SteadyPosition)
    /\ WF_vars(SteadyKey)

\* C12: with one face that stays TOO_FAR and TOO_LEFT, publishes that succeed,
\* no key pressed and time advancing, the distance command Forward is
\* eventually published; every published command differs from the one
\* published before it and comes at least COMMAND_RATE_LIMIT after it; and
\* each publish of Forward or Right that leaves a rate-limit window before
\* MaxTime, the last instant of the clock, is followed by a publish of the
\* other command: Right is not starved by Forward, and the two alternate.
C12_Alternation ==
    /\ <>(last_pub.cmd = "Forward")
    /\ [](pub.cmd # None =>
            /\ pub.cmd \in {"Forward", "Right"}
            /\ pub.cmd # call.before.cmd
            /\ call.before.by # "none"
                 => call.at - call.before.at >= COMMAND_RATE_LIMIT)
    /\ \A t \in StartTime..(MaxTime - COMMAND_RATE_LIMIT) :
         /\ (last_pub.cmd = "Forward" /\ last_pub.at = t) ~> (last_pub.cmd = "Right")
         /\ (last_pub.cmd = "Right" /\ last_pub.at = t) ~> (last_pub.cmd = "Forward")

\* C12 witness: Forward is published a second time, after Right, one
\* rate-limit window after each other, in front of the unchanged face.
C12_Witness ==
    /\ held.on
    /\ held.class = <<<<"TOO_FAR", "TOO_LEFT">>>>
    /\ pub = [cmd |-> "Forward", by |-> "auto"]
    /\ call.before = [cmd |-> "Right", by |-> "auto", at |-> now - COMMAND_RATE_LIMIT]
    /\ now = StartTime + 2 * COMMAND_RATE_LIMIT

====
